---- MODULE Spec2Model ----
(***************************************************************************)
(* A model of the NHS organisations / NHS UK MCP services:                 *)
(*   - nhsuk_mcp.azure_search.AzureSearchService._extract_content_sections *)
(*     (the recursive hasPart flattening with de-duplication),             *)
(*   - get_postcode_coordinates and the organisation search of both        *)
(*     packages, nhs_orgs_mcp and nhsuk_mcp, split at the await of the     *)
(*     remote call, nhsuk_mcp's get_health_topic, and the tool handlers of *)
(*     nhs_orgs_mcp's server.py,                                           *)
(*   - invocations that run concurrently on the shared service instance,   *)
(*   - _calculate_distance, with the rounding of its floating-point sum.   *)
(* Strings are sequences of one-character strings, so that slicing and     *)
(* concatenation are computed as the code computes them.                   *)
(***************************************************************************)
EXTENDS Integers, Sequences, FiniteSets, TLC

VARIABLES
    data,             \* the document handed to _extract_content_sections
    sections,         \* its local list `sections` (before de-duplication)
    unique_sections,  \* its local list `unique_sections` (the return value)
    flat_pc,          \* "ready", "returned" or "raised" (RecursionError);
                      \* "idle" when no flattening is modelled
    svc,              \* the package whose AzureSearchService is called
    op,               \* the method called on it
    configured,       \* is_configured: the subscription key is not empty
    args,             \* the arguments of the call
    call_pc,          \* "start", "awaiting" (at the await of the remote
                      \* call), "done"; "idle" when no call is modelled
    request,          \* the request sent to the remote service
    requests_sent,    \* how many requests the call has sent
    response,         \* what the remote service answered
    outcome,          \* what the call returned or raised
    coords,           \* the tool handler's local `coords`, the lookup's result
    calls,            \* the invocations that run concurrently on the shared
                      \* service instance: each one's arguments and locals
    log,              \* the requests sent and the answers received, in order
    rounding          \* the rounding error of the floating-point value `a` of
                      \* _calculate_distance, in units in the last place

flatVars == <<data, sections, unique_sections, flat_pc>>
callVars == <<svc, op, configured, args, call_pc, request, requests_sent,
              response, outcome>>
extraVars == <<coords, calls, log, rounding>>
vars == <<flatVars, callVars, extraVars>>

----------------------------------------------------------------------------
(* Bounds of the model *)

\* non-root nodes of a document are 1..MaxNode, the root is node 0
MaxNode == 3
\* longest hasPart / mainEntityOfPage list of the documents that vary the
\* root-level shape
MaxParts == 2
\* the nodes 0..MaxVaried vary their content in the documents that vary the
\* content, the others keep their label
MaxVaried == 2
\* nested extract_from_part calls the interpreter allows before it raises
\* RecursionError (sys.getrecursionlimit() in the real interpreter)
RecursionLimit == 5

\* the slice [:50] of the de-duplication key
KeyLen == 50

----------------------------------------------------------------------------
(* Generic helpers *)

Min(a, b) == IF a <= b THEN a ELSE b

\* Python s[:n]
Take(s, n) == SubSeq(s, 1, Min(n, Len(s)))

RECURSIVE SeqsUpTo(_, _)
\* all sequences over S of length at most n
SeqsUpTo(S, n) ==
    IF n = 0 THEN {<<>>}
    ELSE LET shorter == SeqsUpTo(S, n - 1)
         IN  shorter \cup {Append(s, x) : s \in shorter, x \in S}

----------------------------------------------------------------------------
(* JSON values of a health-topic document *)

\* a string-valued key of a JSON object: absent, or present with a string
Absent == [k |-> "absent", s |-> <<>>]
Str(s) == [k |-> "str", s |-> s]

\* Python truthiness of part.get(key): the key is present and not ""
Truthy(v) == v.k = "str" /\ v.s # <<>>

\* section.get(key, '')
GetOrEmpty(v) == IF v.k = "str" THEN v.s ELSE <<>>

\* the value of a hasPart / mainEntityOfPage key: absent, one object (a node),
\* a list of elements, or some other JSON value (a string, a number)
RelAbsent == [k |-> "absent", n |-> 0, items |-> <<>>]
RelOther == [k |-> "other", n |-> 0, items |-> <<>>]
RelDict(n) == [k |-> "dict", n |-> n, items |-> <<>>]
RelList(s) == [k |-> "list", n |-> 0, items |-> s]

\* an element of a list that is not a JSON object
NonDict == -1

Root == 0
NodeIds == 1..MaxNode
AllNodes == 0..MaxNode

----------------------------------------------------------------------------
(* _extract_content_sections *)

\* lines 219-225: the section of one part
SectionOf(part) ==
    [headline |-> IF Truthy(part.headline) THEN part.headline ELSE Absent,
     text |-> IF Truthy(part.text) THEN part.text
              ELSE IF Truthy(part.description) THEN part.description
              ELSE Absent]

\* every section is appended, an empty one included
MeaningfulAlways(section) == TRUE

\* line 228: only add the section if it has meaningful content
Meaningful(section) == Truthy(section.headline) \/ Truthy(section.text)

Ok(secs) == [ok |-> TRUE, secs |-> secs]
Overflow == [ok |-> FALSE, secs |-> <<>>]

RECURSIVE extract_from_part(_, _, _)
RECURSIVE extract_from_list(_, _, _, _)

\* lines 235-236: for sub_part in has_parts: extract_from_part(sub_part);
\* the call runs in a frame at depth `depth`
extract_from_list(doc, items, i, depth) ==
    IF i > Len(items) THEN Ok(<<>>)
    ELSE LET first == extract_from_part(doc, items[i], depth)
         IN  IF ~first.ok THEN Overflow
             ELSE LET rest == extract_from_list(doc, items, i + 1, depth)
                  IN  IF ~rest.ok THEN Overflow
                      ELSE Ok(first.secs \o rest.secs)

RECURSIVE extract_children_first(_, _, _)
\* a traversal that appends a part's own section after those of its hasPart
extract_children_first(doc, part, depth) ==
    IF depth > RecursionLimit THEN Overflow
    ELSE IF part = NonDict THEN Ok(<<>>)
    ELSE LET section == SectionOf(doc.content[part])
             own == IF Meaningful(section) THEN <<section>> ELSE <<>>
             has_parts == doc.hasPart[part]
             below == IF has_parts.k = "list"
                          THEN extract_from_list(doc, has_parts.items, 1, depth + 1)
                      ELSE IF has_parts.k = "dict"
                          THEN extract_from_part(doc, has_parts.n, depth + 1)
                      ELSE Ok(<<>>)
         IN  IF ~below.ok THEN Overflow ELSE Ok(below.secs \o own)

\* lines 213-238: the sections appended by extract_from_part(part), in the
\* order of the appends; not ok when the recursion exceeds the limit
extract_from_part(doc, part, depth) ==
    IF depth > RecursionLimit THEN Overflow
    ELSE IF part = NonDict THEN Ok(<<>>)
    ELSE LET section == SectionOf(doc.content[part])
             own == IF Meaningful(section) THEN <<section>> ELSE <<>>
             has_parts == doc.hasPart[part]
             below == IF has_parts.k = "list"
                          THEN extract_from_list(doc, has_parts.items, 1, depth + 1)
                      ELSE IF has_parts.k = "dict"
                          THEN extract_from_part(doc, has_parts.n, depth + 1)
                      ELSE Ok(<<>>)
         IN  IF ~below.ok THEN Overflow ELSE Ok(own \o below.secs)

\* lines 246-249 and 254-257: extend with a list, append a dict, ignore the rest
RelElements(rel) ==
    IF rel.k = "list" THEN rel.items
    ELSE IF rel.k = "dict" THEN <<rel.n>>
    ELSE <<>>

\* lines 240-260: mainEntityOfPage, then hasPart, then the root itself
RootElementsRootFirst(doc) ==
    <<Root>> \o RelElements(doc.main) \o RelElements(doc.hasPart[Root])

RootElements(doc) ==
    RelElements(doc.main) \o RelElements(doc.hasPart[Root]) \o <<Root>>

\* line 271: f"{headline[:50]}_{text[:50]}"
SectionKey(section) ==
    Take(GetOrEmpty(section.headline), KeyLen) \o <<"_">>
        \o Take(GetOrEmpty(section.text), KeyLen)

RECURSIVE DedupFrom(_, _, _, _)
\* lines 267-274: keep a section when its key was not seen before
DedupFrom(secs, i, seen, acc) ==
    IF i > Len(secs) THEN acc
    ELSE LET key == SectionKey(secs[i])
         IN  IF key \notin seen
                 THEN DedupFrom(secs, i + 1, seen \cup {key}, Append(acc, secs[i]))
                 ELSE DedupFrom(secs, i + 1, seen, acc)

RemoveDuplicatesNone(secs) == secs

RemoveDuplicates(secs) == DedupFrom(secs, 1, {}, <<>>)

\* lines 262-264: the list `sections` after all root elements are processed
CollectSections(doc) == extract_from_list(doc, RootElements(doc), 1, 1)

\* the whole call: [ok, secs], secs the returned unique_sections
ExtractContentSections(doc) ==
    LET raw == CollectSections(doc)
    IN  IF raw.ok THEN Ok(RemoveDuplicates(raw.secs)) ELSE Overflow

----------------------------------------------------------------------------
(* The documents the model flattens *)

\* a headline of KeyLen + 1 characters ending in c
LongStr(c) == [i \in 1..(KeyLen + 1) |-> IF i <= KeyLen THEN "X" ELSE c]

Part(h, t, d) == [headline |-> h, text |-> t, description |-> d]

\* node n's own headline in the documents that vary the shape: n+1 times "h"
Label(n) == [i \in 1..(n + 1) |-> "h"]
Labelled(n) == Part(Str(Label(n)), Absent, Absent)

\* the parts of the documents that vary the content
Contents ==
    { Part(Str(<<"a", "_">>), Str(<<"b">>), Absent),
      Part(Str(<<"a">>), Str(<<"_", "b">>), Absent),
      Part(Str(<<"_">>), Absent, Absent),
      Part(Absent, Str(<<"_">>), Absent),
      Part(Str(LongStr("A")), Str(<<"b">>), Absent),
      Part(Str(LongStr("B")), Str(<<"b">>), Absent),
      Part(Absent, Str(LongStr("A")), Absent),
      Part(Absent, Str(LongStr("B")), Str(<<"d">>)),
      Part(Absent, Str(<<>>), Str(<<"d">>)),
      Part(Absent, Absent, Str(<<"d">>)),
      Part(Str(<<>>), Absent, Absent),
      Part(Absent, Absent, Absent) }

Elements == NodeIds \cup {NonDict}

\* the values of the root's mainEntityOfPage and hasPart
RootRels ==
    {RelAbsent, RelOther} \cup {RelDict(n) : n \in NodeIds}
        \cup {RelList(s) : s \in SeqsUpTo(Elements, MaxParts)}

\* the values of a nested node's hasPart; a node may name itself or an
\* ancestor (a malformed, cyclic document)
ChildRels ==
    {RelAbsent} \cup {RelDict(n) : n \in NodeIds}
        \cup {RelList(<<n>>) : n \in NodeIds}

\* documents that vary the root-level shape, every node labelled
DocsRootShapes ==
    { [content |-> [n \in AllNodes |-> Labelled(n)],
       main |-> m,
       hasPart |-> [n \in AllNodes |-> IF n = Root THEN h ELSE RelAbsent]]
      : m \in RootRels, h \in RootRels }

\* documents that vary the nesting, every node labelled
DocsNested ==
    { [content |-> [n \in AllNodes |-> Labelled(n)],
       main |-> m,
       hasPart |-> [n \in AllNodes |-> IF n = Root THEN h ELSE c[n]]]
      : m \in {RelAbsent, RelDict(MaxNode)},
        h \in {RelDict(1), RelList(<<1>>), RelList(<<1, MaxNode>>)},
        c \in [NodeIds -> ChildRels] }

\* documents that vary the content of the nodes 0..MaxVaried
DocsContents ==
    { [content |-> [n \in AllNodes |-> IF n <= MaxVaried THEN c[n]
                                       ELSE Labelled(n)],
       main |-> m,
       hasPart |-> [n \in AllNodes |-> IF n = Root THEN h ELSE RelAbsent]]
      : c \in [0..MaxVaried -> Contents],
        m \in {RelAbsent, RelDict(1)},
        h \in {RelList([i \in 1..MaxNode |-> i]), RelList(<<1, 1>>)} }

\* documents whose node 1 varies its content and has one child, the
\* labelled node 2, as a one-element list or as a single object
DocsHollow ==
    { [content |-> [n \in AllNodes |-> IF n = 1 THEN c ELSE Labelled(n)],
       main |-> RelAbsent,
       hasPart |-> [n \in AllNodes |-> IF n = Root THEN RelDict(1)
                                       ELSE IF n = 1 THEN h
                                       ELSE RelAbsent]]
      : c \in Contents, h \in {RelList(<<2>>), RelDict(2)} }

Docs == DocsRootShapes \cup DocsNested \cup DocsContents \cup DocsHollow

\* a document of labelled nodes without relations
PlainDoc ==
    [content |-> [n \in AllNodes |-> Labelled(n)],
     main |-> RelAbsent,
     hasPart |-> [n \in AllNodes |-> RelAbsent]]

----------------------------------------------------------------------------
(* The state machine of one _extract_content_sections call *)

\* no service call is modelled beside the flattening
NoCall ==
    /\ svc = "none"
    /\ op = "none"
    /\ configured = FALSE
    /\ args = <<>>
    /\ call_pc = "idle"
    /\ request = <<>>
    /\ requests_sent = 0
    /\ response = <<>>
    /\ outcome = <<>>

\* no tool handler and no concurrent invocations are modelled
NoExtra ==
    /\ coords = <<>>
    /\ calls = <<>>
    /\ log = <<>>
    /\ rounding = 0

InitFlatten ==
    /\ data \in Docs
    /\ sections = <<>>
    /\ unique_sections = <<>>
    /\ flat_pc = "ready"
    /\ NoCall
    /\ NoExtra

\* the call runs to its return
FlattenReturn ==
    /\ flat_pc = "ready"
    /\ CollectSections(data).ok
    /\ sections' = CollectSections(data).secs
    /\ unique_sections' = ExtractContentSections(data).secs
    /\ flat_pc' = "returned"
    /\ UNCHANGED <<data, callVars, extraVars>>

\* the recursion exceeds the interpreter's limit: RecursionError propagates
FlattenRaise ==
    /\ flat_pc = "ready"
    /\ ~CollectSections(data).ok
    /\ flat_pc' = "raised"
    /\ UNCHANGED <<data, sections, unique_sections, callVars, extraVars>>

NextFlatten == FlattenReturn \/ FlattenRaise

SpecFlatten == InitFlatten /\ [][NextFlatten]_vars

----------------------------------------------------------------------------
(* JSON and Python values of the service calls *)

\* a numeric key of a JSON object: absent, null, or a number; Python's None
\* is the null value
NoKey == [k |-> "absent", v |-> 0]
Null == [k |-> "null", v |-> 0]
Num(x) == [k |-> "num", v |-> x]

\* dict.get(key): None when the key is absent
Get(v) == IF v.k = "absent" THEN Null ELSE v

\* dict.get(key, default)
GetDefault(v, default) == IF v.k = "absent" THEN default ELSE v

\* Python truthiness of a number or None
TruthyNum(v) == v.k = "num" /\ v.v # 0

\* Python `a or b`
PyOr(a, b) == IF TruthyNum(a) THEN a ELSE b

\* None as the value of a string-valued argument
PyNone == [k |-> "none", s |-> <<>>]

\* item.get(key) and item.get(key, "") of a string-valued key
GetStr(v) == IF v.k = "absent" THEN PyNone ELSE v
GetStrDefault(v) == IF v.k = "absent" THEN Str(<<>>) ELSE v

\* what a call returned or raised
NoneValue == [t |-> "None"]
Returned(v) == [kind |-> "return", exc |-> "", value |-> v]
Raised(e) == [kind |-> "raise", exc |-> e, value |-> NoneValue]
ListValue(items) == [t |-> "list", items |-> items]

\* whitespace that str.strip() removes
Whitespace == {" ", "\t"}

RECURSIVE LStrip(_)
LStrip(s) ==
    IF s # <<>> /\ Head(s) \in Whitespace THEN LStrip(Tail(s)) ELSE s

RECURSIVE RStrip(_)
RStrip(s) ==
    IF s # <<>> /\ s[Len(s)] \in Whitespace
        THEN RStrip(SubSeq(s, 1, Len(s) - 1)) ELSE s

\* str.strip()
Strip(s) == RStrip(LStrip(s))

\* str.upper(), on the letters the model's postcodes and type codes use
UpperChar(c) ==
    IF c = "s" THEN "S" ELSE IF c = "w" THEN "W" ELSE IF c = "a" THEN "A"
    ELSE IF c = "p" THEN "P" ELSE IF c = "h" THEN "H"
    ELSE c
Upper(s) == [i \in 1..Len(s) |-> UpperChar(s[i])]

RECURSIVE RemoveSpaces(_)
\* str.replace(" ", "")
RemoveSpaces(s) ==
    IF s = <<>> THEN <<>>
    ELSE IF Head(s) = " " THEN RemoveSpaces(Tail(s))
    ELSE <<Head(s)>> \o RemoveSpaces(Tail(s))

RECURSIVE JoinWith(_, _)
\* sep.join(parts)
JoinWith(sep, parts) ==
    IF parts = <<>> THEN <<>>
    ELSE IF Len(parts) = 1 THEN parts[1]
    ELSE parts[1] \o sep \o JoinWith(sep, Tail(parts))

----------------------------------------------------------------------------
(* The remote service's answers *)

\* the coordinate keys of a postcode entry, in both casings
Entry(Lat, lat, Lon, lon) ==
    [Latitude |-> Lat, latitude |-> lat, Longitude |-> Lon, longitude |-> lon]

NoEntry == Entry(NoKey, NoKey, NoKey, NoKey)

\* a response body: not JSON, a JSON list, or a JSON object with an optional
\* "value" list and, for the postcode lookup, its own coordinate keys
NoBody == [t |-> "none", hasValue |-> FALSE, items |-> <<>>, own |-> NoEntry]
Malformed == [NoBody EXCEPT !.t = "malformed"]
BodyList(items) == [NoBody EXCEPT !.t = "list", !.items = items]
BodyDict(hasValue, items, own) ==
    [t |-> "dict", hasValue |-> hasValue, items |-> items, own |-> own]

\* httpx: the request failed in transport, or a response with a status
NetworkError == [transport |-> "error", status |-> 0, body |-> NoBody]
HttpResponse(status, body) == [transport |-> "ok", status |-> status, body |-> body]
NoResponse == [transport |-> "none", status |-> 0, body |-> NoBody]

\* the request a call sends: the postcode lookup's "search" parameter, or the
\* organisation search's payload ("top", the filter's type, the origin)
NoRequest ==
    [kind |-> "none", search |-> <<>>, top |-> 0, org_type |-> <<>>,
     latitude |-> 0, longitude |-> 0]
Pending == [kind |-> "pending", exc |-> "", value |-> NoneValue]

----------------------------------------------------------------------------
(* get_postcode_coordinates *)

\* nhs_orgs_mcp line 52: postcode.strip().upper().replace(" ", "")
OrgsNormalizedPostcode(postcode) == RemoveSpaces(Upper(Strip(postcode)))

\* nhs_orgs_mcp lines 55-59 and nhsuk_mcp lines 46-50: the "search" parameter
GetByPostcode(service, postcode) ==
    [NoRequest EXCEPT !.kind = "postcode",
                      !.search = IF service = "nhs_orgs_mcp"
                                     THEN OrgsNormalizedPostcode(postcode)
                                     ELSE postcode]

\* nhs_orgs_mcp's PostcodeResult (its models.py): latitude and longitude are
\* floats, postcode a string
OrgsPostcodeResult(latitude, longitude, postcode) ==
    IF latitude.k = "num" /\ longitude.k = "num"
        THEN Returned([t |-> "PostcodeResult", latitude |-> latitude.v,
                       longitude |-> longitude.v, postcode |-> postcode])
        ELSE Raised("ValidationError")

\* nhs_orgs_mcp lines 74-92: the decoding of a response body
OrgsDecodePostcode(postcode, body) ==
    IF body.t = "dict" /\ body.hasValue /\ body.items # <<>>
        THEN LET first_result == body.items[1]
             IN  OrgsPostcodeResult(
                     PyOr(Get(first_result.Latitude),
                          GetDefault(first_result.latitude, Num(0))),
                     PyOr(Get(first_result.Longitude),
                          GetDefault(first_result.longitude, Num(0))),
                     Upper(Strip(postcode)))
    ELSE IF body.t = "dict"
            /\ (body.own.Latitude.k # "absent" \/ body.own.latitude.k # "absent")
        THEN OrgsPostcodeResult(
                 PyOr(Get(body.own.Latitude), GetDefault(body.own.latitude, Num(0))),
                 PyOr(Get(body.own.Longitude), GetDefault(body.own.longitude, Num(0))),
                 Upper(Strip(postcode)))
    ELSE Returned(NoneValue)

\* nhs_orgs_mcp lines 67-102: the call from the answer of the remote service
OrgsPostcodeOutcome(postcode, resp) ==
    IF resp.transport = "error" THEN Raised("HTTPError")
    ELSE IF resp.status = 404 THEN Returned(NoneValue)
    ELSE IF resp.status # 200 THEN Raised("HTTPStatusError")
    ELSE IF resp.body.t = "malformed" THEN Raised("JSONDecodeError")
    ELSE OrgsDecodePostcode(postcode, resp.body)

\* nhsuk_mcp models.py lines 7-11: PostcodeResult(**kwargs) validates the
\* required fields latitude, longitude and postcode; other keywords are ignored
NhsukPostcodeResult(kwargs) ==
    IF /\ {"latitude", "longitude", "postcode"} \subseteq DOMAIN kwargs
       /\ kwargs.latitude.k = "num"
       /\ kwargs.longitude.k = "num"
        THEN Returned([t |-> "PostcodeResult", latitude |-> kwargs.latitude.v,
                       longitude |-> kwargs.longitude.v,
                       postcode |-> kwargs.postcode])
        ELSE Raised("ValidationError")

\* nhsuk_mcp lines 66-85: the decoding of a response body
NhsukDecodePostcode(postcode, body) ==
    IF body.t # "dict" THEN Returned(NoneValue)
    ELSE IF body.hasValue /\ Len(body.items) > 0
        THEN NhsukPostcodeResult([Latitude |-> Get(body.items[1].Latitude),
                                  Longitude |-> Get(body.items[1].Longitude),
                                  Postcode |-> postcode])
    ELSE IF body.own.Latitude.k # "absent" /\ body.own.Longitude.k # "absent"
        THEN NhsukPostcodeResult([Latitude |-> Get(body.own.Latitude),
                                  Longitude |-> Get(body.own.Longitude),
                                  Postcode |-> postcode])
    ELSE Returned(NoneValue)

\* nhsuk_mcp lines 57-92: every exception inside the try block returns None
NhsukPostcodeOutcome(postcode, resp) ==
    IF resp.transport = "error" THEN Returned(NoneValue)
    ELSE IF resp.status # 200 THEN Returned(NoneValue)
    ELSE IF resp.body.t = "malformed" THEN Returned(NoneValue)
    ELSE LET decoded == NhsukDecodePostcode(postcode, resp.body)
         IN  IF decoded.kind = "raise" THEN Returned(NoneValue) ELSE decoded

\* the entries of the remote postcode answers
EntryValues ==
    {Entry(a, b, c, d) : a \in {NoKey, Null, Num(0), Num(515)},
                         b \in {NoKey, Num(520)},
                         c \in {NoKey, Num(-1)},
                         d \in {NoKey, Num(-2)}}

OtherEntry == Entry(Num(999), NoKey, Num(999), NoKey)

PostcodeBodies ==
    {BodyDict(hv, <<>>, own) : hv \in BOOLEAN, own \in EntryValues}
        \cup {BodyDict(TRUE, <<e>>, NoEntry) : e \in EntryValues}
        \cup {BodyDict(TRUE, <<e, OtherEntry>>, NoEntry) : e \in EntryValues}
        \cup {BodyList(<<>>), Malformed}

PostcodeResponses ==
    {NetworkError, HttpResponse(404, NoBody), HttpResponse(500, NoBody)}
        \cup {HttpResponse(200, b) : b \in PostcodeBodies}

Postcodes ==
    { <<"S", "W", "1">>,
      <<" ", "s", "w", " ", "1", " ">>,
      <<"s", "\t", "1">> }

----------------------------------------------------------------------------
(* The organisation search *)

\* the clamp of line 141 of nhs_orgs_mcp: min(max_results, 50)
MaxTop == 50

\* the Geocode key of a search item: absent, null, or an object
NoGeocode == [k |-> "absent", Latitude |-> NoKey, Longitude |-> NoKey]
NullGeocode == [k |-> "null", Latitude |-> NoKey, Longitude |-> NoKey]
GeocodeDict(lat, lon) == [k |-> "dict", Latitude |-> lat, Longitude |-> lon]

\* _calculate_distance: the Haversine distance of two points, kept as the
\* application to its operands; TypeError when an operand is None
calculate_distance(lat1, lon1, lat2, lon2) ==
    IF lat1.k = "num" /\ lon1.k = "num" /\ lat2.k = "num" /\ lon2.k = "num"
        THEN [ok |-> TRUE,
              miles |-> [k |-> "miles", from |-> <<lat1.v, lon1.v>>,
                         to |-> <<lat2.v, lon2.v>>, rounded |-> FALSE]]
        ELSE [ok |-> FALSE,
              miles |-> [k |-> "none", from |-> <<>>, to |-> <<>>,
                         rounded |-> FALSE]]

\* round(distance, 2)
Round2(miles) == [miles EXCEPT !.rounded = TRUE]

\* a keyword of a model constructor, or the field's default
Field(kwargs, name, default) ==
    IF name \in DOMAIN kwargs THEN kwargs[name] ELSE default

\* the fields of Organisation (nhsuk_mcp models.py lines 14-26): code, name
\* and type are required strings, the others default to None
OrganisationModel(kwargs) ==
    IF \A f \in {"organisation_code", "organisation_name", "organisation_type"} :
           f \in DOMAIN kwargs /\ kwargs[f].k = "str"
        THEN Returned([organisation_code |-> kwargs.organisation_code,
                       organisation_name |-> kwargs.organisation_name,
                       organisation_type |-> kwargs.organisation_type,
                       address_line_1 |-> Field(kwargs, "address_line_1", PyNone),
                       address_line_2 |-> Field(kwargs, "address_line_2", PyNone),
                       town |-> Field(kwargs, "town", PyNone),
                       county |-> Field(kwargs, "county", PyNone),
                       postcode |-> Field(kwargs, "postcode", PyNone),
                       latitude |-> Field(kwargs, "latitude", Null),
                       longitude |-> Field(kwargs, "longitude", Null),
                       distance_miles |-> Field(kwargs, "distance_miles", Null)])
        ELSE Raised("ValidationError")

NhsukOrganisation(kwargs) == OrganisationModel(kwargs)

\* nhs_orgs_mcp's Organization (its models.py), with the same fields
OrgsOrganization(kwargs) == OrganisationModel(kwargs)

RECURSIVE AddressPartsFrom(_, _)
\* nhs_orgs_mcp lines 164-168: the stripped values that are not empty
AddressPartsFrom(vals, i) ==
    IF i > Len(vals) THEN <<>>
    ELSE IF Truthy(vals[i]) /\ Strip(vals[i].s) # <<>>
        THEN <<Strip(vals[i].s)>> \o AddressPartsFrom(vals, i + 1)
    ELSE AddressPartsFrom(vals, i + 1)

AddressParts(item) ==
    AddressPartsFrom(<<item.Address1, item.Address2, item.Address3,
                       item.City, item.County>>, 1)

\* nhs_orgs_mcp lines 155-182: the record of one item, or the exception
OrgsBuildOrganization(latitude, longitude, item) ==
    LET item_lat == GetDefault(item.Latitude, Num(0))
        item_lon == GetDefault(item.Longitude, Num(0))
        distance == calculate_distance(Num(latitude), Num(longitude),
                                       item_lat, item_lon)
        address_parts == AddressParts(item)
    IN  IF ~distance.ok THEN Raised("TypeError")
        ELSE OrgsOrganization(
                 [organisation_code |-> GetStrDefault(item.ODSCode),
                  organisation_name |-> GetStrDefault(item.OrganisationName),
                  organisation_type |-> GetStrDefault(item.OrganisationTypeId),
                  address_line_1 |-> IF address_parts # <<>>
                                         THEN Str(JoinWith(<<",", " ">>, address_parts))
                                         ELSE PyNone,
                  address_line_2 |-> PyNone,
                  town |-> GetStr(item.City),
                  county |-> GetStr(item.County),
                  postcode |-> GetStr(item.Postcode),
                  latitude |-> IF TruthyNum(item_lat) THEN item_lat ELSE Null,
                  longitude |-> IF TruthyNum(item_lon) THEN item_lon ELSE Null,
                  distance_miles |-> Round2(distance.miles)])

\* nhsuk_mcp lines 158-176: the record of one item, or the exception
NhsukBuildOrganisation(latitude, longitude, item) ==
    IF item.Geocode.k = "null" THEN Raised("AttributeError")
    ELSE LET geocode == item.Geocode
             distance == calculate_distance(Num(latitude), Num(longitude),
                                            GetDefault(geocode.Latitude, Num(0)),
                                            GetDefault(geocode.Longitude, Num(0)))
         IN  IF ~distance.ok THEN Raised("TypeError")
             ELSE NhsukOrganisation(
                      [organisation_name |-> GetStr(item.OrganisationName),
                       organisation_type |-> GetStr(item.OrganisationTypeID),
                       organisation_code |-> GetStr(item.ODSCode),
                       address_line_1 |-> GetStrDefault(item.Address1),
                       postcode |-> GetStr(item.Postcode),
                       distance_miles |-> distance.miles])

RECURSIVE BuildAll(_, _, _, _, _, _)
\* the loop over the items (nhs_orgs_mcp line 154, nhsuk_mcp line 158): the
\* records in the order of the items, or the first exception
BuildAll(service, latitude, longitude, items, i, acc) ==
    IF i > Len(items) THEN Returned(ListValue(acc))
    ELSE LET built == IF service = "nhs_orgs_mcp"
                          THEN OrgsBuildOrganization(latitude, longitude, items[i])
                          ELSE NhsukBuildOrganisation(latitude, longitude, items[i])
         IN  IF built.kind = "raise" THEN built
             ELSE BuildAll(service, latitude, longitude, items, i + 1,
                           Append(acc, built.value))

\* nhs_orgs_mcp line 141 and nhsuk_mcp line 124: the "top" of the payload
OrgsTop(max_results) == Min(max_results, MaxTop)
NhsukTop(max_results) == max_results

\* nhs_orgs_mcp lines 136-143 and nhsuk_mcp lines 120-126: the payload
SearchPayload(service, a) ==
    [kind |-> "search", search |-> <<"*">>,
     top |-> IF service = "nhs_orgs_mcp" THEN OrgsTop(a.max_results)
             ELSE NhsukTop(a.max_results),
     org_type |-> IF service = "nhs_orgs_mcp" THEN Upper(a.org_type) ELSE a.org_type,
     latitude |-> a.latitude, longitude |-> a.longitude]

\* nhs_orgs_mcp lines 147-189: the call from the answer of the remote service
OrgsSearchOutcome(a, resp) ==
    IF resp.transport = "error" THEN Raised("HTTPError")
    ELSE IF resp.status # 200 THEN Raised("HTTPStatusError")
    ELSE IF resp.body.t = "malformed" THEN Raised("JSONDecodeError")
    ELSE IF resp.body.t = "list" THEN Raised("AttributeError")
    ELSE BuildAll("nhs_orgs_mcp", a.latitude, a.longitude,
                  IF resp.body.hasValue THEN resp.body.items ELSE <<>>, 1, <<>>)

\* nhsuk_mcp lines 133-185: every exception inside the try block returns []
NhsukSearchOutcome(a, resp) ==
    IF resp.transport = "error" THEN Returned(ListValue(<<>>))
    ELSE IF resp.status # 200 THEN Returned(ListValue(<<>>))
    ELSE IF resp.body.t = "malformed" THEN Returned(ListValue(<<>>))
    ELSE IF resp.body.t = "dict" /\ ~resp.body.hasValue THEN Returned(ListValue(<<>>))
    ELSE LET built == BuildAll("nhsuk_mcp", a.latitude, a.longitude,
                               resp.body.items, 1, <<>>)
         IN  IF built.kind = "raise" THEN Returned(ListValue(<<>>)) ELSE built

\* the items of the remote search answers
MaxItems == 2

Tag(c, i) == <<c>> \o [j \in 1..i |-> "x"]

FullItem(i) ==
    [OrganisationName |-> Str(Tag("N", i)),
     ODSCode |-> Str(Tag("C", i)),
     OrganisationTypeId |-> Str(<<"P", "H", "A">>),
     OrganisationTypeID |-> Str(<<"P", "H", "A">>),
     Address1 |-> Str(<<"1", "0", " ", "H">>),
     Address2 |-> Str(<<>>),
     Address3 |-> Str(<<" ", "F", " ">>),
     City |-> Str(<<"T">>),
     County |-> Str(<<"S">>),
     Postcode |-> Str(<<"S", "W", "1">>),
     Latitude |-> Num(515 + i),
     Longitude |-> Num(0 - i),
     Geocode |-> GeocodeDict(Num(515 + i), Num(0 - i))]

\* items with every field, in an order that is not the order of distance
CompleteItems == {FullItem(3), FullItem(1)}

\* items that lack a field
PartialItems ==
    { [FullItem(2) EXCEPT !.OrganisationName = Absent],
      [FullItem(2) EXCEPT !.ODSCode = Absent],
      [FullItem(2) EXCEPT !.OrganisationTypeId = Absent,
                          !.OrganisationTypeID = Absent],
      [FullItem(2) EXCEPT !.Address1 = Absent, !.Address2 = Absent,
                          !.Address3 = Absent, !.City = Absent,
                          !.County = Absent],
      [FullItem(2) EXCEPT !.Latitude = NoKey, !.Longitude = NoKey,
                          !.Geocode = NoGeocode],
      [FullItem(2) EXCEPT !.Geocode = NullGeocode] }

ItemLists == SeqsUpTo(CompleteItems \cup PartialItems, MaxItems)

SearchBodies ==
    {BodyDict(TRUE, items, NoEntry) : items \in ItemLists}
        \cup {BodyList(items) : items \in ItemLists}
        \cup {BodyDict(FALSE, <<>>, NoEntry), Malformed}

SearchResponses ==
    {NetworkError, HttpResponse(404, NoBody), HttpResponse(500, NoBody)}
        \cup {HttpResponse(200, b) : b \in SearchBodies}

MaxResultsValues == {-1, 0, 1, 10, 50, 51, 1000}

----------------------------------------------------------------------------
(* The state machine of one service call *)

Services == {"nhs_orgs_mcp", "nhsuk_mcp"}

Arguments(postcode, max_results) ==
    [postcode |-> postcode, org_type |-> <<"P", "H", "A">>,
     latitude |-> 515, longitude |-> -1, max_results |-> max_results]

\* no flattening is modelled beside the service call
NoFlatten ==
    /\ data = <<>>
    /\ sections = <<>>
    /\ unique_sections = <<>>
    /\ flat_pc = "idle"

\* an entry of the log: which invocation, and what happened
LogEntry(call, event) == [call |-> call, event |-> event]

\* the tools of handle_call_tool that reach the service
Tools ==
    {"convert_postcode_to_coordinates", "search_organizations_by_postcode",
     "search_organizations_by_coordinates", "get_health_topic"}

\* the vocabulary ORGANIZATION_TYPES of nhs_orgs_mcp (its models.py)
OrganizationTypes == {<<"P", "H", "A">>}

\* the arguments of a tool call: organizationType, postcode and topic as the
\* caller gave them ("" when the key is missing), coordinates, maxResults
ToolArguments(org_type, postcode, topic) ==
    [postcode |-> postcode, org_type |-> org_type, latitude |-> 515,
     longitude |-> -1, max_results |-> 10, topic |-> topic]

ToolInputs ==
    {ToolArguments(t, p, h) : t \in {<<>>, <<"p", "h", "a">>, <<"X">>},
                              p \in {<<>>, <<"S", "W", "1">>},
                              h \in {<<>>, <<"f", "l", "u">>}}

\* the text a tool returns: which message, and how many organisations it
\* lists
Text(msg, n) == [t |-> "text", msg |-> msg, n |-> n]

\* the answers of the remote service to a tool's lookup and search
ToolResponses(kind) ==
    IF kind = "postcode"
        THEN {NetworkError, HttpResponse(404, NoBody),
              HttpResponse(200, BodyDict(TRUE, <<>>, NoEntry)),
              HttpResponse(200, BodyDict(TRUE,
                  <<Entry(Num(515), NoKey, Num(-1), NoKey)>>, NoEntry)),
              HttpResponse(200, BodyDict(TRUE,
                  <<Entry(Num(520), NoKey, NoKey, NoKey)>>, NoEntry))}
        ELSE {NetworkError,
              HttpResponse(200, BodyDict(TRUE, <<>>, NoEntry)),
              HttpResponse(200, BodyDict(TRUE, <<FullItem(3), FullItem(1)>>,
                                         NoEntry))}

\* the body of a health-topic answer: the document of the topic
TopicBody(doc) ==
    [t |-> "topic", hasValue |-> FALSE, items |-> <<>>, own |-> NoEntry,
     doc |-> doc]

\* a document whose node 1 has itself as its part
CyclicDoc == [PlainDoc EXCEPT !.hasPart = [n \in AllNodes |->
                                  IF n = MaxNode THEN RelAbsent ELSE RelDict(1)]]

TopicResponses ==
    {NetworkError, HttpResponse(404, NoBody), HttpResponse(500, NoBody),
     HttpResponse(200, Malformed), HttpResponse(200, TopicBody(PlainDoc)),
     HttpResponse(200, TopicBody(CyclicDoc))}

Topics == {<<"f", "l", "u">>, <<"a">>}

InitService ==
    /\ configured \in BOOLEAN
    /\ \/ /\ svc \in Services
          /\ op = "get_postcode_coordinates"
          /\ args \in {Arguments(p, 10) : p \in Postcodes}
       \/ /\ svc \in Services
          /\ op = "search"
          /\ args \in {Arguments(<<>>, m) : m \in MaxResultsValues}
       \/ /\ svc = "nhsuk_mcp"
          /\ op = "get_health_topic"
          /\ args \in {[topic_slug |-> h] : h \in Topics}
       \/ /\ svc = "nhs_orgs_mcp"
          /\ op \in Tools
          /\ args \in ToolInputs
    /\ call_pc = "start"
    /\ request = NoRequest
    /\ requests_sent = 0
    /\ response = NoResponse
    /\ outcome = Pending
    /\ coords = NoneValue
    /\ calls = <<>>
    /\ log = <<>>
    /\ rounding = 0
    /\ NoFlatten

\* get_postcode_coordinates up to its await: not configured, nhs_orgs_mcp
\* raises ValueError (lines 45-49) and nhsuk_mcp returns None (lines 41-43);
\* otherwise the GET request is sent
PostcodeCall ==
    /\ call_pc = "start"
    /\ op = "get_postcode_coordinates"
    /\ IF ~configured
           THEN /\ outcome' = IF svc = "nhs_orgs_mcp" THEN Raised("ValueError")
                              ELSE Returned(NoneValue)
                /\ call_pc' = "done"
                /\ UNCHANGED <<request, requests_sent>>
           ELSE /\ request' = GetByPostcode(svc, args.postcode)
                /\ requests_sent' = requests_sent + 1
                /\ call_pc' = "awaiting"
                /\ UNCHANGED outcome
    /\ UNCHANGED <<svc, op, configured, args, response, flatVars, extraVars>>

\* a resume that sends the request again when the remote call failed
PostcodeResumeRetry ==
    /\ call_pc = "awaiting"
    /\ op = "get_postcode_coordinates"
    /\ \E resp \in PostcodeResponses :
           /\ response' = resp
           /\ IF resp.transport = "error" /\ requests_sent < 3
                  THEN /\ requests_sent' = requests_sent + 1
                       /\ UNCHANGED <<outcome, call_pc>>
                  ELSE /\ outcome' = IF svc = "nhs_orgs_mcp"
                                         THEN OrgsPostcodeOutcome(args.postcode, resp)
                                         ELSE NhsukPostcodeOutcome(args.postcode, resp)
                       /\ call_pc' = "done"
                       /\ UNCHANGED requests_sent
    /\ UNCHANGED <<svc, op, configured, args, request, flatVars, extraVars>>

\* get_postcode_coordinates from the answer of the remote service on
PostcodeResume ==
    /\ call_pc = "awaiting"
    /\ op = "get_postcode_coordinates"
    /\ \E resp \in PostcodeResponses :
           /\ response' = resp
           /\ outcome' = IF svc = "nhs_orgs_mcp"
                             THEN OrgsPostcodeOutcome(args.postcode, resp)
                             ELSE NhsukPostcodeOutcome(args.postcode, resp)
    /\ call_pc' = "done"
    /\ UNCHANGED <<svc, op, configured, args, request, requests_sent, flatVars, extraVars>>

\* the organisation search up to its await: not configured, nhs_orgs_mcp
\* raises ValueError (lines 122-126) and nhsuk_mcp returns [] (lines 112-114);
\* otherwise the POST request is sent
SearchCall ==
    /\ call_pc = "start"
    /\ op = "search"
    /\ IF ~configured
           THEN /\ outcome' = IF svc = "nhs_orgs_mcp" THEN Raised("ValueError")
                              ELSE Returned(ListValue(<<>>))
                /\ call_pc' = "done"
                /\ UNCHANGED <<request, requests_sent>>
           ELSE /\ request' = SearchPayload(svc, args)
                /\ requests_sent' = requests_sent + 1
                /\ call_pc' = "awaiting"
                /\ UNCHANGED outcome
    /\ UNCHANGED <<svc, op, configured, args, response, flatVars, extraVars>>

\* the organisation search from the answer of the remote service on
SearchResume ==
    /\ call_pc = "awaiting"
    /\ op = "search"
    /\ \E resp \in SearchResponses :
           /\ response' = resp
           /\ outcome' = IF svc = "nhs_orgs_mcp"
                             THEN OrgsSearchOutcome(args, resp)
                             ELSE NhsukSearchOutcome(args, resp)
    /\ call_pc' = "done"
    /\ UNCHANGED <<svc, op, configured, args, request, requests_sent, flatVars, extraVars>>

\* a get_health_topic that sends its request without the configuration check
HealthTopicCallUnchecked ==
    /\ call_pc = "start"
    /\ op = "get_health_topic"
    /\ svc = "nhsuk_mcp"
    /\ request' = [NoRequest EXCEPT !.kind = "topic", !.search = args.topic_slug]
    /\ requests_sent' = requests_sent + 1
    /\ call_pc' = "awaiting"
    /\ UNCHANGED <<svc, op, configured, args, response, outcome, flatVars,
                   extraVars>>

\* nhsuk_mcp get_health_topic up to its await: not configured, it returns
\* None (lines 287-289); otherwise the GET request of the topic is sent
HealthTopicCall ==
    /\ call_pc = "start"
    /\ op = "get_health_topic"
    /\ svc = "nhsuk_mcp"
    /\ IF ~configured
           THEN /\ outcome' = Returned(NoneValue)
                /\ call_pc' = "done"
                /\ UNCHANGED <<request, requests_sent>>
           ELSE /\ request' = [NoRequest EXCEPT !.kind = "topic",
                                                !.search = args.topic_slug]
                /\ requests_sent' = requests_sent + 1
                /\ call_pc' = "awaiting"
                /\ UNCHANGED outcome
    /\ UNCHANGED <<svc, op, configured, args, response, flatVars, extraVars>>

\* nhsuk_mcp lines 299-336: the result of get_health_topic from the answer
\* on; every exception, RecursionError included, returns None
HealthTopicOutcome(resp) ==
    IF resp.transport = "error" THEN Returned(NoneValue)
    ELSE IF resp.status # 200 THEN Returned(NoneValue)
    ELSE IF resp.body.t # "topic" THEN Returned(NoneValue)
    ELSE IF ~ExtractContentSections(resp.body.doc).ok THEN Returned(NoneValue)
    ELSE Returned([t |-> "topic",
                   sections |-> ExtractContentSections(resp.body.doc).secs])

HealthTopicResume ==
    /\ call_pc = "awaiting"
    /\ op = "get_health_topic"
    /\ \E resp \in TopicResponses :
           /\ response' = resp
           /\ outcome' = HealthTopicOutcome(resp)
    /\ call_pc' = "done"
    /\ UNCHANGED <<svc, op, configured, args, request, requests_sent, flatVars, extraVars>>

\* the call is a tool call of nhs_orgs_mcp's server (get_health_topic is
\* also the name of a method of nhsuk_mcp's service)
IsToolCall == svc = "nhs_orgs_mcp" /\ op \in Tools

\* server.py: the checks of a tool before it reaches the service. Missing
\* arguments raise ValueError, an organisation type outside the vocabulary
\* and a service that is not configured are answered with a text; "go" when
\* the tool goes on
ToolChecks(tool, a) ==
    LET org_type == Upper(a.org_type)
    IN  IF tool = "convert_postcode_to_coordinates"
            THEN IF ~configured THEN Returned(Text("not_configured", 0))
                 ELSE Returned(Text("go", 0))
        ELSE IF tool = "get_health_topic"
            THEN IF Strip(a.topic) = <<>> THEN Raised("ValueError")
                 ELSE IF ~configured THEN Returned(Text("not_configured", 0))
                 ELSE Returned(Text("go", 0))
        ELSE IF \/ org_type = <<>>
                \/ (tool = "search_organizations_by_postcode" /\ a.postcode = <<>>)
            THEN Raised("ValueError")
        ELSE IF org_type \notin OrganizationTypes
            THEN Returned(Text("invalid_type", 0))
        ELSE IF ~configured THEN Returned(Text("not_configured", 0))
        ELSE Returned(Text("go", 0))

\* the arguments the handler passes to search_organizations
ToolSearchArguments(a, latitude, longitude) ==
    [a EXCEPT !.org_type = Upper(a.org_type), !.latitude = latitude,
              !.longitude = longitude]

\* handle_call_tool from its start to its first await (or to its return):
\* the tools with a postcode send the lookup (lines 157 and 200), the search
\* by coordinates sends the search (line 274), and get_health_topic calls a
\* method that nhs_orgs_mcp's service does not have: the AttributeError is
\* caught and answered with an error text (lines 331 and 370-375)
ToolCall ==
    /\ call_pc = "start"
    /\ IsToolCall
    /\ LET checked == ToolChecks(op, args)
       IN  IF checked # Returned(Text("go", 0))
               THEN /\ outcome' = checked
                    /\ call_pc' = "done"
                    /\ UNCHANGED <<request, requests_sent, log>>
           ELSE IF op = "get_health_topic"
               THEN /\ outcome' = Returned(Text("error", 0))
                    /\ call_pc' = "done"
                    /\ UNCHANGED <<request, requests_sent, log>>
           ELSE IF op = "search_organizations_by_coordinates"
               THEN /\ request' = SearchPayload(svc,
                                      ToolSearchArguments(args, args.latitude,
                                                          args.longitude))
                    /\ requests_sent' = requests_sent + 1
                    /\ log' = Append(log, LogEntry(0, "search_request"))
                    /\ call_pc' = "awaiting_search"
                    /\ UNCHANGED outcome
           ELSE /\ request' = GetByPostcode(svc, args.postcode)
                /\ requests_sent' = requests_sent + 1
                /\ log' = Append(log, LogEntry(0, "lookup_request"))
                /\ call_pc' = "awaiting_lookup"
                /\ UNCHANGED outcome
    /\ UNCHANGED <<svc, op, configured, args, response, coords, calls, rounding,
                   flatVars>>

\* a handler that sends the search whatever the lookup gave, from the
\* coordinates (0, 0) when there is no result
ToolLookupResumeAlways ==
    /\ call_pc = "awaiting_lookup"
    /\ op = "search_organizations_by_postcode"
    /\ \E resp \in ToolResponses("postcode") :
           LET result == OrgsPostcodeOutcome(args.postcode, resp)
           IN  /\ response' = resp
               /\ coords' = result.value
               /\ request' = SearchPayload(svc, ToolSearchArguments(args, 0, 0))
               /\ requests_sent' = requests_sent + 1
               /\ log' = log \o <<LogEntry(0, "lookup_response"),
                                   LogEntry(0, "search_request")>>
               /\ call_pc' = "awaiting_search"
               /\ UNCHANGED outcome
    /\ UNCHANGED <<svc, op, configured, args, calls, rounding, flatVars>>

\* handle_call_tool from the answer to the lookup on: an exception is
\* answered with an error text, None with "not found"; the conversion tool
\* returns the coordinates (lines 157-173); the search by postcode sends the
\* search from coords.latitude and coords.longitude (lines 200-213)
ToolLookupResume ==
    /\ call_pc = "awaiting_lookup"
    /\ op \in {"convert_postcode_to_coordinates",
                "search_organizations_by_postcode"}
    /\ \E resp \in ToolResponses("postcode") :
           LET result == OrgsPostcodeOutcome(args.postcode, resp)
           IN  /\ response' = resp
               /\ IF result.kind = "raise"
                      THEN /\ outcome' = Returned(Text("error", 0))
                           /\ call_pc' = "done"
                           /\ log' = Append(log, LogEntry(0, "lookup_response"))
                           /\ UNCHANGED <<request, requests_sent, coords>>
                  ELSE IF result.value = NoneValue
                      THEN /\ outcome' = Returned(Text("not_found", 0))
                           /\ call_pc' = "done"
                           /\ log' = Append(log, LogEntry(0, "lookup_response"))
                           /\ UNCHANGED <<request, requests_sent, coords>>
                  ELSE IF op = "convert_postcode_to_coordinates"
                      THEN /\ outcome' = Returned(Text("coordinates", 0))
                           /\ coords' = result.value
                           /\ call_pc' = "done"
                           /\ log' = Append(log, LogEntry(0, "lookup_response"))
                           /\ UNCHANGED <<request, requests_sent>>
                  ELSE /\ coords' = result.value
                       /\ request' = SearchPayload(svc,
                                         ToolSearchArguments(args,
                                             result.value.latitude,
                                             result.value.longitude))
                       /\ requests_sent' = requests_sent + 1
                       /\ log' = log \o <<LogEntry(0, "lookup_response"),
                                           LogEntry(0, "search_request")>>
                       /\ call_pc' = "awaiting_search"
                       /\ UNCHANGED outcome
    /\ UNCHANGED <<svc, op, configured, args, calls, rounding, flatVars>>

\* handle_call_tool from the answer to the search on (lines 215-247 and
\* 281-313): an exception is answered with an error text, an empty list with
\* "no organizations found", a list with its organisations
ToolSearchResume ==
    /\ call_pc = "awaiting_search"
    /\ op \in {"search_organizations_by_postcode",
                "search_organizations_by_coordinates"}
    /\ \E resp \in ToolResponses("search") :
           LET organizations ==
                   OrgsSearchOutcome([latitude |-> request.latitude,
                                      longitude |-> request.longitude], resp)
           IN  /\ response' = resp
               /\ outcome' =
                      IF organizations.kind = "raise"
                          THEN Returned(Text("error", 0))
                      ELSE IF organizations.value.items = <<>>
                          THEN Returned(Text("none_found", 0))
                      ELSE Returned(Text("found", Len(organizations.value.items)))
    /\ log' = Append(log, LogEntry(0, "search_response"))
    /\ call_pc' = "done"
    /\ UNCHANGED <<svc, op, configured, args, request, requests_sent, coords,
                   calls, rounding, flatVars>>

NextService ==
    \/ PostcodeCall \/ PostcodeResume \/ SearchCall \/ SearchResume
    \/ HealthTopicCall \/ HealthTopicResume
    \/ ToolCall \/ ToolLookupResume \/ ToolSearchResume

SpecService == InitService /\ [][NextService]_vars

----------------------------------------------------------------------------
(* Concurrent invocations on the shared service instance *)

\* the invocations that run concurrently are 1..MaxCalls
MaxCalls == 2
Invocations == 1..MaxCalls

ConcPostcodes == {<<"S", "W", "1">>, <<" ", "s", "w", " ", "1", " ">>}

ConcDocs ==
    {d \in DocsHollow :
         /\ d.hasPart[1] = RelDict(2)
         /\ d.content[1] \in {Part(Absent, Absent, Absent),
                               Part(Str(<<"_">>), Absent, Absent)}}

\* the operation and the arguments of one invocation; only nhsuk_mcp has
\* _extract_content_sections
ConcInputs(service) ==
    {[op |-> "get_postcode_coordinates", args |-> Arguments(p, 10),
      data |-> PlainDoc] : p \in ConcPostcodes}
        \cup {[op |-> "search", args |-> Arguments(<<>>, m), data |-> PlainDoc]
                 : m \in {10, 51}}
        \cup IF service = "nhsuk_mcp"
                 THEN {[op |-> "flatten", args |-> Arguments(<<>>, 10), data |-> d]
                         : d \in ConcDocs}
                 ELSE {}

\* the answers of the remote service to the concurrent invocations
ConcResponses(operation) ==
    IF operation = "get_postcode_coordinates"
        THEN {NetworkError, HttpResponse(404, NoBody),
              HttpResponse(200, BodyDict(TRUE, <<>>, NoEntry)),
              HttpResponse(200, BodyDict(TRUE,
                  <<Entry(Num(515), NoKey, Num(-1), NoKey)>>, NoEntry))}
        ELSE {NetworkError,
              HttpResponse(200, BodyDict(TRUE, <<>>, NoEntry)),
              HttpResponse(200, BodyDict(TRUE, <<FullItem(3), FullItem(1)>>,
                                         NoEntry))}

\* one invocation at its start: its parameters, and its locals not yet set
NewCall(input) ==
    [op |-> input.op, args |-> input.args, data |-> input.data,
     pc |-> "start", request |-> NoRequest, response |-> NoResponse,
     outcome |-> Pending]

InitConcurrent ==
    /\ svc \in Services
    /\ configured \in BOOLEAN
    /\ calls \in [Invocations -> {NewCall(input) : input \in ConcInputs(svc)}]
    /\ log = <<>>
    /\ coords = <<>>
    /\ rounding = 0
    /\ op = "none"
    /\ args = <<>>
    /\ call_pc = "idle"
    /\ request = NoRequest
    /\ requests_sent = 0
    /\ response = NoResponse
    /\ outcome = Pending
    /\ NoFlatten

\* the arguments an invocation reads after its await: the parameters of the
\* other invocation
OtherArguments(i) == calls[CHOOSE j \in Invocations : j # i].args

\* the arguments an invocation reads after its await: its own parameters
\* (postcode, latitude, longitude are parameters of the coroutine, no
\* attribute of the service is written)
OwnArguments(i) == calls[i].args

\* what a call that does not reach the remote service ends with: not
\* configured, nhs_orgs_mcp raises ValueError, nhsuk_mcp returns None or []
Unconfigured(service, operation) ==
    IF service = "nhs_orgs_mcp" THEN Raised("ValueError")
    ELSE IF operation = "search" THEN Returned(ListValue(<<>>))
    ELSE Returned(NoneValue)

\* the request of a call
RequestOf(service, operation, a) ==
    IF operation = "get_postcode_coordinates"
        THEN GetByPostcode(service, a.postcode)
        ELSE SearchPayload(service, a)

\* the call from the answer of the remote service on
OutcomeOf(service, operation, a, resp) ==
    IF operation = "get_postcode_coordinates"
        THEN IF service = "nhs_orgs_mcp"
                 THEN OrgsPostcodeOutcome(a.postcode, resp)
                 ELSE NhsukPostcodeOutcome(a.postcode, resp)
        ELSE IF service = "nhs_orgs_mcp"
                 THEN OrgsSearchOutcome(a, resp)
                 ELSE NhsukSearchOutcome(a, resp)

\* _extract_content_sections as a call: the list, or RecursionError
FlattenOutcome(doc) ==
    IF ExtractContentSections(doc).ok
        THEN Returned(ListValue(ExtractContentSections(doc).secs))
        ELSE Raised("RecursionError")

\* invocation i runs _extract_content_sections: the function has no await,
\* it runs from its call to its return in one step of the event loop
FlattenInvoke(i) ==
    /\ calls[i].pc = "start"
    /\ calls[i].op = "flatten"
    /\ calls' = [calls EXCEPT ![i].pc = "done",
                              ![i].outcome = FlattenOutcome(calls[i].data)]
    /\ UNCHANGED <<log, coords, rounding, svc, configured, op, args, call_pc, request,
                   requests_sent, response, outcome, flatVars>>

\* invocation i runs get_postcode_coordinates or the organisation search up
\* to its await
RemoteInvoke(i) ==
    /\ calls[i].pc = "start"
    /\ calls[i].op # "flatten"
    /\ IF ~configured
           THEN /\ calls' = [calls EXCEPT
                                ![i].pc = "done",
                                ![i].outcome = Unconfigured(svc, calls[i].op)]
                /\ UNCHANGED log
           ELSE /\ calls' = [calls EXCEPT
                                ![i].pc = "awaiting",
                                ![i].request = RequestOf(svc, calls[i].op,
                                                         calls[i].args)]
                /\ log' = Append(log, LogEntry(i, "request"))
    /\ UNCHANGED <<coords, rounding, svc, configured, op, args, call_pc, request,
                   requests_sent, response, outcome, flatVars>>

\* invocation i resumes from its await with the answer to its own request
RemoteResume(i) ==
    /\ calls[i].pc = "awaiting"
    /\ \E resp \in ConcResponses(calls[i].op) :
           calls' = [calls EXCEPT
                        ![i].pc = "done",
                        ![i].response = resp,
                        ![i].outcome = OutcomeOf(svc, calls[i].op,
                                                 OwnArguments(i), resp)]
    /\ log' = Append(log, LogEntry(i, "response"))
    /\ UNCHANGED <<coords, rounding, svc, configured, op, args, call_pc, request,
                   requests_sent, response, outcome, flatVars>>

NextConcurrent ==
    \/ \E i \in Invocations : FlattenInvoke(i)
    \/ \E i \in Invocations : RemoteInvoke(i)
    \/ \E i \in Invocations : RemoteResume(i)

SpecConcurrent == InitConcurrent /\ [][NextConcurrent]_vars

----------------------------------------------------------------------------
(* _calculate_distance *)

\* R = 3959, the Earth's radius in miles
EarthRadius == 3959

\* the coordinates of the model, in degrees: multiples of a quarter turn,
\* where the squared sines and the cosines are 0, 1/2 or 1
QuarterTurn == 90
Latitudes == {0 - QuarterTurn, 0, QuarterTurn}
Longitudes == {0 - 2 * QuarterTurn, 0 - QuarterTurn, 0, QuarterTurn, 2 * QuarterTurn}

Abs(x) == IF x < 0 THEN 0 - x ELSE x

\* twice sin(radians(d) / 2) ** 2, for d a multiple of a quarter turn; sin is
\* odd, so the square does not depend on the sign of d
TwiceSinHalfSquared(d) ==
    LET m == (Abs(d) \div QuarterTurn) % 4
    IN  IF m = 0 THEN 0 ELSE IF m = 2 THEN 2 ELSE 1

\* cos(radians(lat)), for lat a multiple of a quarter turn
Cos(lat) ==
    LET m == (Abs(lat) \div QuarterTurn) % 4
    IN  IF m = 0 THEN 1 ELSE IF m = 2 THEN 0 - 1 ELSE 0

\* twice the real value of
\* a = sin(dlat/2)**2 + cos(lat1) * cos(lat2) * sin(dlon/2)**2
TwiceA(lat1, lon1, lat2, lon2) ==
    TwiceSinHalfSquared(lat2 - lat1)
        + Cos(lat1) * Cos(lat2) * TwiceSinHalfSquared(lon2 - lon1)

\* the floating-point value of a: the real value and the rounding error of
\* the sum, err units in the last place; both terms are the exact float 0
\* when the two points are the same, and the sum is then exact; the terms
\* are squares and a product of cosines of latitudes, none of them negative,
\* so the sum is not below 0
FloatA(lat1, lon1, lat2, lon2, err) ==
    [twice |-> TwiceA(lat1, lon1, lat2, lon2),
     ulps |-> IF lat1 = lat2 /\ lon1 = lon2 THEN 0
              ELSE IF TwiceA(lat1, lon1, lat2, lon2) = 0 /\ err < 0 THEN 0
              ELSE err]

\* R * c for c = 2 * atan2(sqrt(a), sqrt(1 - a)): c is 0, pi/2 or pi when a
\* is 0, 1/2 or 1 (pi taken as 355/113)
Miles(a) == (EarthRadius * 355 * a.twice) \div (113 * 2)

\* _calculate_distance: math.sqrt raises ValueError("math domain error")
\* when its operand is negative, that is when a < 0 or a > 1
Haversine(lat1, lon1, lat2, lon2, err) ==
    LET a == FloatA(lat1, lon1, lat2, lon2, err)
    IN  IF \/ a.twice > 2 \/ (a.twice = 2 /\ a.ulps > 0)
           \/ a.twice < 0 \/ (a.twice = 0 /\ a.ulps < 0)
            THEN Raised("ValueError")
            ELSE Returned([t |-> "float", miles |-> Miles(a)])

\* the points of a call
DistanceArguments ==
    [lat1 : Latitudes, lon1 : Longitudes, lat2 : Latitudes, lon2 : Longitudes]

InitDistance ==
    /\ svc \in Services
    /\ op = "_calculate_distance"
    /\ configured \in BOOLEAN
    /\ args \in DistanceArguments
    /\ rounding \in {-1, 0, 1}
    /\ call_pc = "start"
    /\ request = NoRequest
    /\ requests_sent = 0
    /\ response = NoResponse
    /\ outcome = Pending
    /\ coords = <<>>
    /\ calls = <<>>
    /\ log = <<>>
    /\ NoFlatten

\* the call of _calculate_distance, from its arguments to its return or its
\* exception
DistanceCall ==
    /\ call_pc = "start"
    /\ op = "_calculate_distance"
    /\ outcome' = Haversine(args.lat1, args.lon1, args.lat2, args.lon2, rounding)
    /\ call_pc' = "done"
    /\ UNCHANGED <<svc, op, configured, args, request, requests_sent, response,
                   flatVars, extraVars>>

NextDistance == DistanceCall

SpecDistance == InitDistance /\ [][NextDistance]_vars

----------------------------------------------------------------------------
(* Properties of _extract_content_sections *)

\* the nodes a relation value names
EntryPoints(rel) ==
    IF rel.k = "list" THEN {rel.items[i] : i \in 1..Len(rel.items)} \ {NonDict}
    ELSE IF rel.k = "dict" THEN {rel.n}
    ELSE {}

RECURSIVE Closure(_, _)
\* the nodes reachable from S along hasPart, S included
Closure(doc, S) ==
    LET T == S \cup UNION {EntryPoints(doc.hasPart[n]) : n \in S}
    IN  IF T = S THEN S ELSE Closure(doc, T)

MainNodes(doc) == Closure(doc, EntryPoints(doc.main))
PartNodes(doc) == Closure(doc, EntryPoints(doc.hasPart[Root]))

\* where a section comes from: 1 the mainEntityOfPage nodes, 2 the nodes of
\* the root's hasPart, 3 the root; the earliest of them when several nodes
\* carry the same section
OriginOf(doc, section) ==
    IF \E n \in MainNodes(doc) : SectionOf(doc.content[n]) = section THEN 1
    ELSE IF \E n \in PartNodes(doc) : SectionOf(doc.content[n]) = section THEN 2
    ELSE 3

HasKey(secs, key) == \E i \in 1..Len(secs) : SectionKey(secs[i]) = key

\* C1: the root-level entry points are visited in the order mainEntityOfPage
\* nodes, then the root's hasPart nodes, then the root: in the returned list
\* no section of a later origin precedes one of an earlier origin, every
\* entry point with a meaningful section is represented, and a root section
\* that no other visited node shares is the last one.
C1_RootOrder ==
    flat_pc = "returned" =>
        /\ \A i, j \in 1..Len(unique_sections) :
               i < j => OriginOf(data, unique_sections[i])
                            <= OriginOf(data, unique_sections[j])
        /\ \A n \in EntryPoints(data.main) \cup EntryPoints(data.hasPart[Root])
                        \cup {Root} :
               Meaningful(SectionOf(data.content[n]))
                   => HasKey(unique_sections, SectionKey(SectionOf(data.content[n])))
        /\ ( /\ Meaningful(SectionOf(data.content[Root]))
             /\ \A n \in MainNodes(data) \cup PartNodes(data) :
                    SectionKey(SectionOf(data.content[n]))
                        # SectionKey(SectionOf(data.content[Root])) )
           => unique_sections[Len(unique_sections)] = SectionOf(data.content[Root])

\* C1 witness: main content [A], has-part [B] and a root headline give
\* A's section, B's section, the root's section
C1_Witness ==
    /\ flat_pc = "returned"
    /\ data.main = RelList(<<1>>)
    /\ data.hasPart[Root] = RelList(<<2>>)
    /\ unique_sections = <<SectionOf(Labelled(1)), SectionOf(Labelled(2)),
                           SectionOf(Labelled(Root))>>

\* the first 50 characters of a section's headline and of its text (a missing
\* one counts as empty)
Headline50(section) ==
    IF section.headline.k = "str" THEN Take(section.headline.s, 50) ELSE <<>>
Text50(section) ==
    IF section.text.k = "str" THEN Take(section.text.s, 50) ELSE <<>>

\* two sections agree on both truncated components
SameTruncated(a, b) == Headline50(a) = Headline50(b) /\ Text50(a) = Text50(b)

\* the first position of `secs` that agrees with `section` on both
FirstLike(secs, section) ==
    CHOOSE i \in 1..Len(secs) :
        /\ SameTruncated(secs[i], section)
        /\ \A j \in 1..(i - 1) : ~SameTruncated(secs[j], section)

\* the document with a copy of node b's branch added to the root's hasPart
WithBranch(doc, b) ==
    [doc EXCEPT !.hasPart[Root] = RelList(Append(RelElements(@), b))]

\* C2: of the extracted sections that agree on the first 50 characters of
\* headline and of text only the first is returned, the returned sections
\* keep their relative order, and adding an exact duplicate of a branch of
\* the document leaves the returned list as it is.
C2_FirstOccurrenceOnly ==
    flat_pc = "returned" =>
        /\ \A i, j \in 1..Len(unique_sections) :
               i < j => ~SameTruncated(unique_sections[i], unique_sections[j])
        /\ \A k \in 1..Len(unique_sections) :
               /\ \E i \in 1..Len(sections) :
                      SameTruncated(sections[i], unique_sections[k])
               /\ unique_sections[k]
                      = sections[FirstLike(sections, unique_sections[k])]
        /\ \A k, l \in 1..Len(unique_sections) :
               k < l => FirstLike(sections, unique_sections[k])
                            < FirstLike(sections, unique_sections[l])
        /\ \A b \in MainNodes(data) \cup PartNodes(data) :
               /\ ExtractContentSections(WithBranch(data, b)).ok
               /\ ExtractContentSections(WithBranch(data, b)).secs = unique_sections

\* C2 witness: two headlines that differ only in their 51st character were
\* both extracted and only the first one was returned
C2_Witness ==
    /\ flat_pc = "returned"
    /\ \E i, j \in 1..Len(sections) :
           /\ i < j
           /\ sections[i].headline = Str(LongStr("A"))
           /\ sections[j].headline = Str(LongStr("B"))
           /\ sections[i].text = sections[j].text
    /\ \E k \in 1..Len(unique_sections) :
           unique_sections[k].headline = Str(LongStr("A"))
    /\ \A k \in 1..Len(unique_sections) :
           unique_sections[k].headline # Str(LongStr("B"))

\* C3: a section is dropped only when an earlier extracted section agrees
\* with it on both the first 50 characters of headline and the first 50
\* characters of text: every extracted section has a returned section that
\* agrees with it on both.
C3_DroppedOnlyIfBothMatch ==
    flat_pc = "returned" =>
        \A i \in 1..Len(sections) :
            \E k \in 1..Len(unique_sections) :
                SameTruncated(unique_sections[k], sections[i])

\* C4: the call ends with a finite list of sections for every document, a
\* document whose hasPart relation is cyclic included: it never ends with the
\* recursion exceeding the interpreter's limit.
C4_TotalOnCyclicInput == flat_pc # "raised"

\* a key holds a non-empty string
NonEmpty(v) == v.k = "str" /\ v.s # <<>>

\* the nodes the traversal reaches: the root and everything below the
\* mainEntityOfPage and hasPart entry points
Visited(doc) == Closure(doc, {Root} \cup EntryPoints(doc.main))

\* C11: every section of the output is meaningful, it has a non-empty
\* headline or a non-empty text; each one is the headline and text of a
\* visited node, so a node with no headline, text or description gives no
\* section; and the children of such a node are visited all the same: every
\* visited node with a non-empty headline is represented in the output.
C11_OnlyMeaningfulSections ==
    flat_pc = "returned" =>
        /\ \A i \in 1..Len(sections) :
               NonEmpty(sections[i].headline) \/ NonEmpty(sections[i].text)
        /\ \A k \in 1..Len(unique_sections) :
               /\ NonEmpty(unique_sections[k].headline)
                      \/ NonEmpty(unique_sections[k].text)
               /\ \E n \in Visited(data) :
                      /\ NonEmpty(data.content[n].headline)
                             \/ NonEmpty(data.content[n].text)
                             \/ NonEmpty(data.content[n].description)
                      /\ GetOrEmpty(unique_sections[k].headline)
                             = GetOrEmpty(data.content[n].headline)
        /\ \A n \in Visited(data) :
               NonEmpty(data.content[n].headline)
                   => \E i \in 1..Len(sections) :
                          sections[i].headline = data.content[n].headline

\* C11 witness: node 1 has no headline, text or description and its child,
\* node 2, has a headline: the output holds node 2's section and the root's
C11_Witness ==
    /\ flat_pc = "returned"
    /\ data.hasPart[Root] = RelDict(1)
    /\ data.content[1] = Part(Absent, Absent, Absent)
    /\ data.hasPart[1] = RelList(<<2>>)
    /\ unique_sections = <<SectionOf(Labelled(2)), SectionOf(Labelled(Root))>>

\* the children of a node in their sequence order, a single object as a
\* one-element sequence; elements that are not objects have no section
Children(doc, n) ==
    LET rel == doc.hasPart[n]
        all == IF rel.k = "list" THEN rel.items
               ELSE IF rel.k = "dict" THEN <<rel.n>>
               ELSE <<>>
    IN  SelectSeq(all, LAMBDA e : e # NonDict)

RECURSIVE PreOrder(_, _)
RECURSIVE PreOrderAll(_, _)
\* the depth-first pre-order of the subtree of n: n, then the whole subtree
\* of its first child, then that of the next child, ...
PreOrder(doc, n) == <<n>> \o PreOrderAll(doc, Children(doc, n))
PreOrderAll(doc, nodes) ==
    IF nodes = <<>> THEN <<>>
    ELSE PreOrder(doc, Head(nodes)) \o PreOrderAll(doc, Tail(nodes))

\* the root elements in the order of C1, without the non-objects
RootNodes(doc) == SelectSeq(RootElements(doc), LAMBDA e : e # NonDict)

\* C12: the traversal below each root element is depth-first pre-order: on a
\* document whose visited nodes all have a headline, the headlines of the
\* extracted sections are those of the nodes in pre-order (a node before its
\* descendants, children in sequence order, a child's whole subtree before
\* the next sibling), and a hasPart that is a single object gives what the
\* one-element list of that object gives.
C12_DepthFirstPreOrder ==
    flat_pc = "returned" =>
        /\ (\A n \in Visited(data) : NonEmpty(data.content[n].headline))
               => LET order == PreOrderAll(data, RootNodes(data))
                  IN  /\ Len(sections) = Len(order)
                      /\ \A i \in 1..Len(order) :
                             sections[i].headline = data.content[order[i]].headline
        /\ \A n \in AllNodes :
               data.hasPart[n].k = "dict"
                   => LET listed == [data EXCEPT !.hasPart[n] = RelList(<<@.n>>)]
                      IN  /\ CollectSections(listed) = Ok(sections)
                          /\ ExtractContentSections(listed) = Ok(unique_sections)

\* C12 witness: the root has the parts 1 and 3 and node 1 has the part 2:
\* the sections of 1, 2, 3 are appended in this order, then the root's
\* followed by 1, 2, 3 again
C12_Witness ==
    /\ flat_pc = "returned"
    /\ data.main = RelAbsent
    /\ data.hasPart[Root] = RelList(<<1, 3>>)
    /\ data.hasPart[1] = RelList(<<2>>)
    /\ sections = <<SectionOf(Labelled(1)), SectionOf(Labelled(2)),
                    SectionOf(Labelled(3)), SectionOf(Labelled(Root)),
                    SectionOf(Labelled(1)), SectionOf(Labelled(2)),
                    SectionOf(Labelled(3))>>

\* C13: a section's text is a node's description only when that node has no
\* text key: every text of an extracted section is the text of a visited
\* node, or the description of a visited node that has no text key at all (a
\* text key that is present and empty is not replaced by the description).
C13_DescriptionOnlyWithoutText ==
    flat_pc = "returned" =>
        \A i \in 1..Len(sections) :
            sections[i].text.k = "str" =>
                \E n \in Visited(data) :
                    \/ data.content[n].text = sections[i].text
                    \/ /\ data.content[n].text.k = "absent"
                       /\ data.content[n].description = sections[i].text

----------------------------------------------------------------------------
(* Properties of the service calls *)

\* the call is over and had sent its request
Answered(operation) ==
    call_pc = "done" /\ op = operation /\ requests_sent > 0

\* the remote call failed: no response, a status that is not a success (for
\* the postcode lookup other than 404, the remote not-found), or a body that
\* is not JSON
TransportFailure ==
    \/ response.transport = "error"
    \/ /\ response.transport = "ok"
       /\ response.status # 200
       /\ ~(op = "get_postcode_coordinates" /\ response.status = 404)
    \/ /\ response.transport = "ok"
       /\ response.status = 200
       /\ response.body.t = "malformed"

\* the remote call succeeded with a JSON body
Success == response.transport = "ok" /\ response.status = 200
               /\ response.body.t \in {"dict", "list"}

\* C5: no failure of the remote call is masked as a normal result: a failed
\* postcode lookup or organisation search ends in an error (not None, not an
\* empty list), and a successful search answer whose envelope holds zero
\* items returns an empty list.
C5_NoFailureMasked ==
    /\ (call_pc = "done" /\ op \in {"get_postcode_coordinates", "search"}
            /\ requests_sent > 0 /\ TransportFailure)
           => outcome.kind = "raise"
    /\ (Answered("search") /\ Success /\ response.body.t = "dict"
            /\ response.body.hasValue /\ response.body.items = <<>>)
           => outcome = Returned(ListValue(<<>>))

\* C6: the "top" of the search payload is the caller's max_results clamped to
\* [1, 50].
C6_TopClamped ==
    request.kind = "search" =>
        request.top = IF args.max_results < 1 THEN 1
                      ELSE IF args.max_results > 50 THEN 50
                      ELSE args.max_results

\* the entry the postcode lookup reads: the first of a non-empty "value"
\* list, else the response object itself
SelectedEntry ==
    IF response.body.hasValue /\ response.body.items # <<>>
        THEN response.body.items[1]
        ELSE response.body.own

\* C7: on {"value": []} the postcode lookup returns None, and on an entry
\* {"Latitude": x, "Longitude": y} (the first of the envelope, or the bare
\* object) it returns a PostcodeResult with the coordinates x and y.
C7_PostcodeDecoded ==
    (Answered("get_postcode_coordinates") /\ Success /\ response.body.t = "dict") =>
        /\ (response.body = BodyDict(TRUE, <<>>, NoEntry))
               => outcome = Returned(NoneValue)
        /\ ( /\ SelectedEntry.Latitude.k = "num"
             /\ SelectedEntry.Longitude.k = "num"
             /\ SelectedEntry.latitude.k = "absent"
             /\ SelectedEntry.longitude.k = "absent" )
               => /\ outcome.kind = "return"
                  /\ outcome.value.t = "PostcodeResult"
                  /\ outcome.value.latitude = SelectedEntry.Latitude.v
                  /\ outcome.value.longitude = SelectedEntry.Longitude.v

\* C8: when the selected entry lacks a latitude or a longitude in both
\* casings the postcode lookup returns None: no PostcodeResult with a
\* defaulted coordinate, and no exception.
C8_MissingCoordinateNotFound ==
    ( /\ Answered("get_postcode_coordinates") /\ Success
      /\ response.body.t = "dict"
      /\ \/ SelectedEntry.Latitude.k = "absent" /\ SelectedEntry.latitude.k = "absent"
         \/ SelectedEntry.Longitude.k = "absent" /\ SelectedEntry.longitude.k = "absent" )
        => outcome = Returned(NoneValue)

\* the answer carries its items as a bare list or in an envelope
CarriesItems ==
    Success /\ (response.body.t = "list" \/ response.body.hasValue)

\* C9: a successful search answer with N items, bare or in an envelope, gives
\* N records, the i-th built from the i-th item (the remote order is kept).
\* Stated on answers whose items have every field.
C9_RemoteOrderKept ==
    ( /\ Answered("search") /\ CarriesItems
      /\ \A i \in 1..Len(response.body.items) :
             response.body.items[i] \in CompleteItems )
        => /\ outcome.kind = "return"
           /\ Len(outcome.value.items) = Len(response.body.items)
           /\ \A i \in 1..Len(response.body.items) :
                  /\ outcome.value.items[i].organisation_code
                         = response.body.items[i].ODSCode
                  /\ outcome.value.items[i].organisation_name
                         = response.body.items[i].OrganisationName

\* a record's string field holds the item's value, or "" or None when the
\* item has no such key
FieldOrEmpty(field, value) ==
    IF value.k = "str" THEN field = value ELSE field \in {Str(<<>>), PyNone}

\* C10: items with missing fields never make the search fail or lose
\* results: every item of the answer gives a record, the missing fields empty
\* or None in it. Stated on answers in an envelope.
C10_MissingFieldsTolerated ==
    (Answered("search") /\ Success /\ response.body.t = "dict"
         /\ response.body.hasValue)
        => /\ outcome.kind = "return"
           /\ Len(outcome.value.items) = Len(response.body.items)
           /\ \A i \in 1..Len(response.body.items) :
                  /\ FieldOrEmpty(outcome.value.items[i].organisation_name,
                                  response.body.items[i].OrganisationName)
                  /\ FieldOrEmpty(outcome.value.items[i].organisation_code,
                                  response.body.items[i].ODSCode)

\* how many entries of the log are the event
CountEvents(event) == Cardinality({i \in 1..Len(log) : log[i].event = event})

\* C14: a call of a service method that passes the configuration check sends
\* exactly one request, the postcode lookup and the organisation search
\* alike: one request is out while the call awaits, and the call ends, in a
\* result or in an error, with that one request sent; nothing is sent again
\* after a failure. A tool call, which calls the methods, sends at most one
\* lookup and at most one search.
C14_ExactlyOneRequest ==
    /\ ~IsToolCall =>
           /\ requests_sent <= 1
           /\ (call_pc = "awaiting" => requests_sent = 1 /\ request.kind # "none")
           /\ (call_pc = "done" /\ configured) => requests_sent = 1
    /\ IsToolCall =>
           /\ CountEvents("lookup_request") <= 1
           /\ CountEvents("search_request") <= 1
           /\ requests_sent = CountEvents("lookup_request")
                                  + CountEvents("search_request")

\* C14 witness: a postcode lookup whose remote call failed in transport is
\* over with one request sent
C14_Witness ==
    /\ call_pc = "done"
    /\ op = "get_postcode_coordinates"
    /\ response = NetworkError
    /\ requests_sent = 1

\* a string without its whitespace characters
WithoutWhitespace(s) == SelectSeq(s, LAMBDA c : c \notin Whitespace)

\* C15: the postcode lookup sends the postcode trimmed, upper-cased and with
\* all internal whitespace removed, and a returned PostcodeResult stores the
\* trimmed, upper-cased postcode with its internal spaces kept.
C15_PostcodeNormalized ==
    /\ request.kind = "postcode"
           => request.search = WithoutWhitespace(Upper(Strip(args.postcode)))
    /\ ( /\ call_pc = "done" /\ op = "get_postcode_coordinates"
         /\ outcome.kind = "return" /\ outcome.value.t = "PostcodeResult" )
           => outcome.value.postcode = Upper(Strip(args.postcode))

\* the structured address fields of an item that are not empty, each trimmed,
\* in the order line 1, line 2, line 3, city, county
NonEmptyAddressFields(item) ==
    LET fields == <<item.Address1, item.Address2, item.Address3, item.City,
                    item.County>>
        trimmed == [i \in 1..Len(fields) |-> Strip(GetOrEmpty(fields[i]))]
    IN  SelectSeq(trimmed, LAMBDA f : f # <<>>)

RECURSIVE CommaSeparated(_)
\* the fields with ", " between neighbours only
CommaSeparated(fields) ==
    IF Len(fields) = 0 THEN <<>>
    ELSE IF Len(fields) = 1 THEN fields[1]
    ELSE fields[1] \o <<",", " ">> \o CommaSeparated(Tail(fields))

\* C16: the composed address line of every record is the non-empty address
\* fields of its item, each trimmed, joined in the order line 1, line 2,
\* line 3, city, county with ", " (no leading, trailing or doubled
\* separator); with no such field the line is empty or None.
C16_AddressComposed ==
    ( /\ Answered("search") /\ outcome.kind = "return"
      /\ Len(outcome.value.items) = Len(response.body.items) )
        => \A i \in 1..Len(response.body.items) :
               LET fields == NonEmptyAddressFields(response.body.items[i])
                   line == outcome.value.items[i].address_line_1
               IN  IF fields = <<>> THEN line \in {PyNone, Str(<<>>)}
                   ELSE line = Str(CommaSeparated(fields))

----------------------------------------------------------------------------
(* Properties of the tool handlers *)

\* the position of the first entry of the log with the event, 0 when there
\* is none
FirstEvent(event) ==
    IF \E i \in 1..Len(log) : log[i].event = event
        THEN CHOOSE i \in 1..Len(log) :
                 /\ log[i].event = event
                 /\ \A j \in 1..(i - 1) : log[j].event # event
        ELSE 0

\* C19: in the tool search_organizations_by_postcode the lookup is answered
\* before the search request is sent, the search request carries the
\* coordinates the lookup returned, and when the lookup returned None or
\* raised no search request is sent.
C19_LookupBeforeSearch ==
    (IsToolCall /\ op = "search_organizations_by_postcode") =>
        /\ CountEvents("search_request") > 0
               => /\ FirstEvent("lookup_response") > 0
                  /\ FirstEvent("lookup_response") < FirstEvent("search_request")
                  /\ coords # NoneValue
                  /\ request.kind = "search"
                  /\ request.latitude = coords.latitude
                  /\ request.longitude = coords.longitude
        /\ call_pc = "awaiting_search"
               => LET result == OrgsPostcodeOutcome(args.postcode, response)
                  IN  /\ result.kind = "return"
                      /\ result.value # NoneValue
                      /\ request.latitude = result.value.latitude
                      /\ request.longitude = result.value.longitude
        /\ (call_pc = "done" /\ outcome \in {Returned(Text("not_found", 0)),
                                              Returned(Text("error", 0))}
                /\ CountEvents("search_response") = 0)
               => CountEvents("search_request") = 0
        /\ coords = NoneValue => CountEvents("search_request") = 0

\* C19 witness: the lookup gave (515, -1), the search was sent with these
\* coordinates after the lookup's answer and found two organisations
C19_Witness ==
    /\ IsToolCall
    /\ op = "search_organizations_by_postcode"
    /\ call_pc = "done"
    /\ log = <<LogEntry(0, "lookup_request"), LogEntry(0, "lookup_response"),
               LogEntry(0, "search_request"), LogEntry(0, "search_response")>>
    /\ request.latitude = 515
    /\ request.longitude = -1
    /\ outcome = Returned(Text("found", 2))

\* the arguments of the tool call pass the handler's checks of them
ToolArgumentsValid ==
    \/ op = "convert_postcode_to_coordinates"
    \/ op = "get_health_topic" /\ Strip(args.topic) # <<>>
    \/ /\ op \in {"search_organizations_by_postcode",
                    "search_organizations_by_coordinates"}
       /\ Upper(args.org_type) \in OrganizationTypes
       /\ op = "search_organizations_by_postcode" => args.postcode # <<>>

\* C20: when the service is not configured no request is sent at all:
\* get_postcode_coordinates, the organisation search and get_health_topic
\* end before they send (nhs_orgs_mcp raises ValueError, nhsuk_mcp returns
\* None or []), and a tool call with valid arguments returns the
\* configuration error text without a call of the service.
C20_NoRequestWhenUnconfigured ==
    ~configured =>
        /\ requests_sent = 0
        /\ request = NoRequest
        /\ log = <<>>
        /\ call_pc \in {"start", "done"}
        /\ (call_pc = "done" /\ ~IsToolCall)
               => outcome = IF svc = "nhs_orgs_mcp" THEN Raised("ValueError")
                            ELSE IF op = "search" THEN Returned(ListValue(<<>>))
                            ELSE Returned(NoneValue)
        /\ (call_pc = "done" /\ IsToolCall /\ ToolArgumentsValid)
               => outcome = Returned(Text("not_configured", 0))

\* C20 witness: get_health_topic on a service that is not configured is
\* over, it returned None and sent nothing
C20_Witness ==
    /\ ~configured
    /\ svc = "nhsuk_mcp"
    /\ op = "get_health_topic"
    /\ call_pc = "done"
    /\ outcome = Returned(NoneValue)
    /\ requests_sent = 0

----------------------------------------------------------------------------
(* Properties of concurrent invocations *)

\* what an invocation returns when it runs alone on its inputs and on the
\* answer it received
Alone(c) ==
    IF c.op = "flatten" THEN FlattenOutcome(c.data)
    ELSE IF ~configured THEN Unconfigured(svc, c.op)
    ELSE OutcomeOf(svc, c.op, c.args, c.response)

\* C17: concurrent invocations on the shared service instance are
\* independent: under every interleaving at the awaits each finished
\* invocation has the result it has when run alone on its inputs and its
\* remote answer, each request in flight is the one its own arguments give,
\* and no invocation changes the parameters of another.
C17_InvocationsIndependent ==
    \A i \in Invocations :
        /\ calls[i].pc = "done" => calls[i].outcome = Alone(calls[i])
        /\ calls[i].pc = "awaiting"
               => calls[i].request = RequestOf(svc, calls[i].op, calls[i].args)
        /\ calls[i].pc = "start"
               => calls[i].request = NoRequest /\ calls[i].outcome = Pending

\* C17 witness: two postcode lookups with different postcodes overlap, the
\* second one's request is sent and answered while the first one awaits, and
\* each returns the PostcodeResult of its own postcode
C17_Witness ==
    /\ svc = "nhs_orgs_mcp"
    /\ log = <<LogEntry(1, "request"), LogEntry(2, "request"),
               LogEntry(2, "response"), LogEntry(1, "response")>>
    /\ calls[1].args.postcode # calls[2].args.postcode
    /\ \A i \in Invocations :
           /\ calls[i].pc = "done"
           /\ calls[i].outcome.kind = "return"
           /\ calls[i].outcome.value.t = "PostcodeResult"
           /\ calls[i].outcome.value.postcode = Upper(Strip(calls[i].args.postcode))

----------------------------------------------------------------------------
(* Properties of _calculate_distance *)

\* C18: _calculate_distance returns a distance for every pair of finite
\* coordinates (it never raises), the distance of a point to itself is 0,
\* and the distance from a to b is the distance from b to a.
C18_DistanceTotalZeroSymmetric ==
    (call_pc = "done" /\ op = "_calculate_distance") =>
        /\ outcome.kind = "return"
        /\ (args.lat1 = args.lat2 /\ args.lon1 = args.lon2)
               => outcome.value.miles = 0
        /\ outcome = Haversine(args.lat2, args.lon2, args.lat1, args.lon1,
                               rounding)

====
